---- MODULE Spec2Model ----
(***************************************************************************)
(* A model of the M-tree of m_tree/classes.py and of its helpers in        *)
(* m_tree/helpers.py.  Python objects live in the store `nodes`: a node's  *)
(* identity is its index in the store, None is 0.  MTree.insert and        *)
(* MTree.knn are followed call by call: `pc` is the position of the one    *)
(* (single-threaded) caller.                                               *)
(***************************************************************************)
EXTENDS Integers, Sequences, FiniteSets, TLC

\* ------------------------------------------------------------------ bounds
MaxInserts == 4
MaxCapacity == 3
\* calls of PriorityQueue.push in one run of its callers
MaxPushes == 5
\* the largest k of a LimitedSet, and the calls of LimitedSet.add that insert
MaxK == 2
MaxAdds == 5

\* values the callers insert, and the values they query with
Values == {0, 10, 20, 30}
Queries == {11, 20, 35}

\* classes.py:24
DEFAULT_NODE_CAPACITY == 8

None == 0

VARIABLES
    pc,             \* position of the caller
    node_capacity,  \* MTree.node_capacity
    length,         \* MTree.length
    root,           \* MTree.root: a node, or None for the empty tuple ()
    nodes,          \* the store of Node objects
    value,          \* the argument `value` of the running insert / knn
    node,           \* `self` of the running ParentNode.insert / add_child
    child,          \* the argument of the pending add_child
    k,              \* the argument `k` of the running knn
    results,        \* knn's LimitedSet
    pq,             \* knn's PriorityQueue
    ret,            \* the list the last call returned
    error,          \* the exception the last call raised, "" for none
    inserted,       \* history: the values passed to insert, in order
    popped,         \* history: the nodes the running knn popped, in order
    entered,        \* history: the root and the height when insert was called
    held,           \* history: the entries pushed on pq and not popped yet
    taken,          \* history: what the last pq.pop returned, and the number of pops
    priority_of,    \* history: the priority each item was last added with
    call            \* history: the last call on results, and results before it

\* the history of the calls made on a PriorityQueue or a LimitedSet directly
hvars == <<held, taken, priority_of, call>>

vars == <<pc, node_capacity, length, root, nodes, value, node, child,
          k, results, pq, ret, error, inserted, popped, entered, hvars>>

\* ------------------------------------------------------------ arithmetic
abs(x) == IF x < 0 THEN -x ELSE x

max(x, y) == IF x >= y THEN x ELSE y

Min3(x, y, z) ==
    IF x <= y /\ x <= z THEN x ELSE IF y <= z THEN y ELSE z

\* Python values: an int is itself; a str over the letters a, b, c is held as
\* STR plus its letters read as the digits 1..3 of a base-4 numeral, so that
\* isinstance(x, str) is x >= STR (every int the callers use is below STR)
Letters == <<"a", "b", "c">>

STR == 1000

RECURSIVE str(_)
str(s) ==
    IF s = <<>> THEN STR
    ELSE STR + 4 * (str(SubSeq(s, 1, Len(s) - 1)) - STR)
             + (CHOOSE i \in 1..Len(Letters) : Letters[i] = s[Len(s)])

\* the letters of a str, as their digits
RECURSIVE digits(_)
digits(m) == IF m = 0 THEN <<>> ELSE Append(digits(m \div 4), m % 4)

isinstance_str(x) == x >= STR

\* the Levenshtein distance of two sequences
RECURSIVE levenshtein(_, _)
levenshtein(s, t) ==
    IF s = <<>> THEN Len(t)
    ELSE IF t = <<>> THEN Len(s)
    ELSE IF Head(s) = Head(t) THEN levenshtein(Tail(s), Tail(t))
    ELSE 1 + Min3(levenshtein(Tail(s), t), levenshtein(s, Tail(t)),
                  levenshtein(Tail(s), Tail(t)))

\* an edit distance that only counts the difference of the lengths
editdistance_eval_lengths(a, b) ==
    abs(Len(digits(a - STR)) - Len(digits(b - STR)))

\* editdistance.eval(a, b)
editdistance_eval(a, b) == levenshtein(digits(a - STR), digits(b - STR))

\* helpers.py default_distance: the branches taken for str and for integers
default_distance(a, b) ==
    IF isinstance_str(a) THEN editdistance_eval(a, b) ELSE abs(a - b)

\* MTree.distance_function: the constructor's default
distance_function(a, b) == default_distance(a, b)

\* max(...) of a non-empty sequence of numbers
RECURSIVE MaxOfSeq(_)
MaxOfSeq(s) ==
    IF Len(s) = 1 THEN s[1] ELSE max(s[1], MaxOfSeq(Tail(s)))

\* ------------------------------------------------------------ Node (store N)
\* Node.distance(item) for a node item without `+ item.radius`
distance_node_no_radius(N, self, item) ==
    distance_function(N[self].router, N[item].router)

\* Node.distance(item) for a Node item
distance_node(N, self, item) ==
    distance_function(N[self].router, N[item].router) + N[item].radius

\* Node.distance(item) for a value item
distance(N, self, item) == distance_function(N[self].router, item)

\* min_distance without the radius: the distance to the router itself
min_distance_no_radius(N, self, v) ==
    max(0, distance_function(N[self].router, v))

\* Node.min_distance
min_distance(N, self, v) ==
    max(0, distance_function(N[self].router, v) - N[self].radius)

max_distance(N, self, v) ==
    distance_function(N[self].router, v) + N[self].radius

\* ValueNode(tree, value): Node.__init__
ValueNode(v) ==
    [kind |-> "ValueNode", router |-> v, parent |-> None, radius |-> 0,
     children |-> <<>>]

isValueNode(N, n) == N[n].kind = "ValueNode"

isParentNode(N, n) == N[n].kind = "ParentNode"

\* _add_child without `child.parent = self`
add_child_noparent(N, self, c) ==
    [N EXCEPT ![self].children = Append(@, c),
              ![self].radius = max(@, distance_node(N, self, c))]

\* ParentNode._add_child
add_child_(N, self, c) ==
    [N EXCEPT ![c].parent = self,
              ![self].children = Append(@, c),
              ![self].radius = max(@, distance_node(N, self, c))]

RECURSIVE add_each(_, _, _)
add_each(N, self, cs) ==
    IF cs = <<>> THEN N
    ELSE add_each(add_child_(N, self, Head(cs)), self, Tail(cs))

\* set_children without its last statement: the radius is only ever grown
set_children_keep_radius(N, self, cs) ==
    LET N1 == [N EXCEPT ![self].router = N[cs[1]].router,
                        ![self].children = <<>>]
    IN  add_each(N1, self, cs)

\* ParentNode.set_children
set_children(N, self, cs) ==
    LET N1 == [N EXCEPT ![self].router = N[cs[1]].router,
                        ![self].children = <<>>]
        N2 == add_each(N1, self, cs)
    IN  [N2 EXCEPT ![self].radius =
            MaxOfSeq([i \in 1..Len(cs) |-> distance_node(N2, self, cs[i])])]

\* ParentNode(tree, children) taking its router from the last child
NewParentNode_last_router(N, cs) ==
    LET id == Len(N) + 1
        N0 == Append(N, [kind |-> "ParentNode", router |-> N[cs[1]].router,
                         parent |-> None, radius |-> 0, children |-> <<>>])
    IN  [set_children(N0, id, cs) EXCEPT ![id].router = N[cs[Len(cs)]].router]

\* ParentNode(tree, children): the new object is the last of the store.
\* (router is None until set_children, its first statement, assigns it)
NewParentNode(N, cs) ==
    LET id == Len(N) + 1
        N0 == Append(N, [kind |-> "ParentNode", router |-> N[cs[1]].router,
                         parent |-> None, radius |-> 0, children |-> <<>>])
    IN  set_children(N0, id, cs)

\* add_child testing `len(self.children) > self.capacity`
at_capacity_late(N, self, capacity) == Len(N[self].children) > capacity

\* ParentNode.add_child: the test `len(self.children) >= self.capacity`
at_capacity(N, self, capacity) == Len(N[self].children) >= capacity

\* ParentNode.insert without the update of the radius on the way down
grow_radius_skipped(N, self, v) == N

\* ParentNode.insert: `self.radius = max(self.radius, self.distance(value))`
grow_radius(N, self, v) ==
    [N EXCEPT ![self].radius = max(@, distance_function(N[self].router, v))]

\* promote_and_partition with `elif b.distance(item) < a.distance(item)` for
\* the second list: a candidate as far from a as from b is in neither list
RECURSIVE partition_strict(_, _, _, _, _)
partition_strict(N, a, b, cands, lists) ==
    IF cands = <<>> THEN lists
    ELSE LET item == Head(cands)
         IN  IF distance_node(N, a, item) < distance_node(N, b, item)
             THEN partition_strict(N, a, b, Tail(cands),
                                   <<Append(lists[1], item), lists[2]>>)
             ELSE IF distance_node(N, b, item) < distance_node(N, a, item)
             THEN partition_strict(N, a, b, Tail(cands),
                                   <<lists[1], Append(lists[2], item)>>)
             ELSE partition_strict(N, a, b, Tail(cands), lists)

\* ParentNode.promote_and_partition: the loop over the candidates
RECURSIVE partition(_, _, _, _, _)
partition(N, a, b, cands, lists) ==
    IF cands = <<>> THEN lists
    ELSE LET item == Head(cands)
         IN  IF distance_node(N, a, item) < distance_node(N, b, item)
             THEN partition(N, a, b, Tail(cands),
                            <<Append(lists[1], item), lists[2]>>)
             ELSE partition(N, a, b, Tail(cands),
                            <<lists[1], Append(lists[2], item)>>)

\* promote_and_partition with the comparison turned round: a candidate joins
\* the router it is farther from
promote_and_partition_farther(N, self, n) ==
    LET all == Append(N[self].children, n)
        a == all[1]
        b == all[2]
    IN  partition(N, b, a, SubSeq(all, 3, Len(all)), << <<a>>, <<b>> >>)

\* ParentNode.promote_and_partition
promote_and_partition(N, self, n) ==
    LET all == Append(N[self].children, n)
        a == all[1]
        b == all[2]
    IN  partition(N, a, b, SubSeq(all, 3, Len(all)), << <<a>>, <<b>> >>)

\* split creating new_node from a_list instead of b_list
split_nodes_a_list(N, self, n) ==
    LET lists == promote_and_partition(N, self, n)
        N1 == set_children(N, self, lists[1])
    IN  NewParentNode(N1, lists[1])

\* ParentNode.split up to the creation of new_node (new_node is the last
\* object of the resulting store)
split_nodes(N, self, n) ==
    LET lists == promote_and_partition(N, self, n)
        N1 == set_children(N, self, lists[1])
    IN  NewParentNode(N1, lists[2])

\* ParentNode.__iter__ returning after its first child
RECURSIVE iter_first(_, _)
iter_first(N, cs) ==
    IF cs = <<>> THEN <<>>
    ELSE IF isValueNode(N, Head(cs)) THEN <<N[Head(cs)].router>>
    ELSE iter_first(N, N[Head(cs)].children)

\* ParentNode.__iter__ / ValueNode.__iter__
RECURSIVE iter(_, _)
RECURSIVE iter_all(_, _)
iter(N, n) ==
    IF isValueNode(N, n) THEN <<N[n].router>> ELSE iter_all(N, N[n].children)

iter_all(N, cs) ==
    IF cs = <<>> THEN <<>> ELSE iter(N, Head(cs)) \o iter_all(N, Tail(cs))

\* ParentNode.__contains__ / ValueNode.__contains__
RECURSIVE contains(_, _, _)
contains(N, n, item) ==
    IF isValueNode(N, n) THEN item = N[n].router
    ELSE \E i \in 1..Len(N[n].children) : contains(N, N[n].children[i], item)

\* MTree.__iter__ as list(tree), MTree.__contains__, MTree.__len__
tree_list == IF root = None THEN <<>> ELSE iter(nodes, root)

tree_contains(item) == IF root = None THEN FALSE ELSE contains(nodes, root, item)

tree_len == length

\* min(self.children, key=lambda x: x.distance(value)): the first minimal one
nearest_child(N, self, v) ==
    LET cs == N[self].children
        i == CHOOSE i \in 1..Len(cs) :
                /\ \A j \in 1..Len(cs) : distance(N, cs[i], v) <= distance(N, cs[j], v)
                /\ \A j \in 1..(i - 1) : distance(N, cs[j], v) > distance(N, cs[i], v)
    IN  cs[i]

\* ParentNode.covers (no caller in classes.py)
covers(N, self, v) == distance(N, self, v) <= N[self].radius

\* ParentNode.increase_required (no caller in classes.py)
increase_required(N, self, v) == distance(N, self, v) - N[self].radius

\* ------------------------------------------------------------------ heapq
\* heap entries are the tuples (priority, count, item); counts are unique, so
\* the tuple comparison never reaches the item
Entry(p, c, i) == [priority |-> p, count |-> c, item |-> i]

entry_lt(x, y) ==
    \/ x.priority < y.priority
    \/ x.priority = y.priority /\ x.count < y.count

\* heapq._siftdown (positions are 0-based as in heapq; sequences are 1-based)
RECURSIVE siftdown(_, _, _, _)
siftdown(heap, startpos, pos, newitem) ==
    LET parentpos == (pos - 1) \div 2
    IN  IF pos > startpos /\ entry_lt(newitem, heap[parentpos + 1])
        THEN siftdown([heap EXCEPT ![pos + 1] = heap[parentpos + 1]],
                      startpos, parentpos, newitem)
        ELSE [heap EXCEPT ![pos + 1] = newitem]

\* heapq._siftup
RECURSIVE siftup(_, _, _, _)
siftup(heap, startpos, pos, newitem) ==
    LET endpos == Len(heap)
        leftpos == 2 * pos + 1
        rightpos == leftpos + 1
        childpos == IF rightpos < endpos
                       /\ ~entry_lt(heap[leftpos + 1], heap[rightpos + 1])
                    THEN rightpos ELSE leftpos
    IN  IF leftpos < endpos
        THEN siftup([heap EXCEPT ![pos + 1] = heap[childpos + 1]],
                    startpos, childpos, newitem)
        ELSE siftdown([heap EXCEPT ![pos + 1] = newitem], startpos, pos, newitem)

heappush(heap, item) == siftdown(Append(heap, item), 0, Len(heap), item)

\* heapq.heappop: the heap it leaves, and the entry it returns
heappop_heap(heap) ==
    LET lastelt == heap[Len(heap)]
        rest == SubSeq(heap, 1, Len(heap) - 1)
    IN  IF rest = <<>> THEN rest ELSE siftup(rest, 0, 0, lastelt)

heappop_item(heap) == heap[1]

\* ---------------------------------------------------------- PriorityQueue
\* push without `self.count += 1`: every entry carries the count 0
pq_push_no_count(q, priority, item) ==
    [items |-> heappush(q.items, Entry(priority, 0, item)),
     count |-> q.count]

pq_push(q, priority, item) ==
    [items |-> heappush(q.items, Entry(priority, q.count, item)),
     count |-> q.count + 1]

pq_pop_queue(q) == [q EXCEPT !.items = heappop_heap(q.items)]

pq_pop_item(q) == heappop_item(q.items)

\* ------------------------------------------------------------- LimitedSet
LimitedSet(kk) == [pq |-> <<>>, count |-> 0, k |-> kk, items |-> {}]

\* the loop of LimitedSet.limit: pops the discarded entries off the top
RECURSIVE limit_pq(_, _)
limit_pq(heap, items) ==
    IF heap # <<>> /\ heap[1].item \notin items
    THEN limit_pq(heappop_heap(heap), items)
    ELSE heap

\* LimitedSet.limit: the set it leaves
limit_set(ls) == [ls EXCEPT !.pq = limit_pq(ls.pq, ls.items)]

\* limit without its while loop: the top of the heap is read as it is
limit_unskipped(ls) ==
    IF Cardinality(ls.items) < ls.k
    THEN [inf |-> TRUE, v |-> 0]
    ELSE [inf |-> FALSE, v |-> -(ls.pq[1].priority)]

\* LimitedSet.limit: the value it returns, float("inf") as [inf |-> TRUE]
limit(ls) ==
    IF Cardinality(ls.items) < ls.k
    THEN [inf |-> TRUE, v |-> 0]
    ELSE [inf |-> FALSE, v |-> -(limit_set(ls).pq[1].priority)]

\* x <= lim and x > lim for a number x and a value lim of limit
leq_limit(x, lim) == lim.inf \/ x <= lim.v

gt_limit(x, lim) == ~lim.inf /\ x > lim.v

\* LimitedSet.add pushing (priority, count, item) instead of (-priority, ...)
ls_add_unnegated(ls, priority, item) ==
    LET ls1 == limit_set(ls)
        pushed == heappush(ls1.pq, Entry(priority, ls1.count, item))
        items1 == ls1.items \cup {item}
    IN  IF gt_limit(priority, limit(ls))
        THEN ls1
        ELSE IF Cardinality(items1) > ls1.k
             THEN [ls1 EXCEPT !.pq = heappop_heap(pushed),
                              !.items = items1 \ {heappop_item(pushed).item},
                              !.count = @ + 1]
             ELSE [ls1 EXCEPT !.pq = pushed, !.items = items1, !.count = @ + 1]

\* LimitedSet.add
ls_add(ls, priority, item) ==
    LET ls1 == limit_set(ls)
        pushed == heappush(ls1.pq, Entry(-priority, ls1.count, item))
        items1 == ls1.items \cup {item}
    IN  IF gt_limit(priority, limit(ls))
        THEN ls1
        ELSE IF Cardinality(items1) > ls1.k
             THEN [ls1 EXCEPT !.pq = heappop_heap(pushed),
                              !.items = items1 \ {heappop_item(pushed).item},
                              !.count = @ + 1]
             ELSE [ls1 EXCEPT !.pq = pushed, !.items = items1, !.count = @ + 1]

\* LimitedSet.add: whether `self.items.remove(item)` raises KeyError, the
\* popped entry being the entry of an item that is not in items
ls_add_raises(ls, priority, item) ==
    LET ls1 == limit_set(ls)
        pushed == heappush(ls1.pq, Entry(-priority, ls1.count, item))
        items1 == ls1.items \cup {item}
    IN  /\ ~gt_limit(priority, limit(ls))
        /\ Cardinality(items1) > ls1.k
        /\ heappop_item(pushed).item \notin items1

\* discard that leaves the item in the set
ls_discard_kept(ls, item) == ls

\* LimitedSet.discard
ls_discard(ls, item) == [ls EXCEPT !.items = @ \ {item}]

\* __iter__ without `if item[2] in self.items`: every heap entry is yielded
ls_iter_unfiltered(ls) == ls.pq

\* LimitedSet.__iter__
ls_iter(ls) == SelectSeq(ls.pq, LAMBDA e : e.item \in ls.items)

\* ------------------------------------------------------------- MTree.knn
\* the loop body pruning on |d(parent, q) - d(parent, child)| alone, without
\* `- child_node.radius`
knn_child_no_radius(N, n, v, c, st) ==
    LET res1 == limit_set(st.results)
        lim == limit(res1)
        bound == abs(distance(N, n, v) - distance(N, n, N[c].router))
    IN  IF leq_limit(bound, lim) /\ leq_limit(min_distance(N, c, v), lim)
        THEN [results |-> ls_add(res1, max_distance(N, c, v), c),
              pq |-> IF isParentNode(N, c)
                     THEN pq_push(st.pq, min_distance(N, c, v), c)
                     ELSE st.pq]
        ELSE [results |-> res1, pq |-> st.pq]

\* one pass of the body of `for child_node in node.children`
knn_child(N, n, v, c, st) ==
    LET res1 == limit_set(st.results)
        lim == limit(res1)
        bound == abs(distance(N, n, v) - distance(N, n, N[c].router)) - N[c].radius
    IN  IF leq_limit(bound, lim) /\ leq_limit(min_distance(N, c, v), lim)
        THEN [results |-> ls_add(res1, max_distance(N, c, v), c),
              pq |-> IF isParentNode(N, c)
                     THEN pq_push(st.pq, min_distance(N, c, v), c)
                     ELSE st.pq]
        ELSE [results |-> res1, pq |-> st.pq]

RECURSIVE knn_children(_, _, _, _, _)
knn_children(N, n, v, cs, st) ==
    IF cs = <<>> THEN st
    ELSE knn_children(N, n, v, Tail(cs), knn_child(N, n, v, Head(cs), st))

\* the loop body with `node = pq.pop()` reading the head without removing it
knn_body_no_pop(N, v, st) ==
    LET n == pq_pop_item(st.pq).item
        st1 == [results |-> ls_discard(st.results, n), pq |-> st.pq]
    IN  knn_children(N, n, v, N[n].children, st1)

\* one pass of the body of `while pq`
knn_body(N, v, st) ==
    LET n == pq_pop_item(st.pq).item
        st1 == [results |-> ls_discard(st.results, n), pq |-> pq_pop_queue(st.pq)]
    IN  knn_children(N, n, v, N[n].children, st1)

\* knn with `if k <= 0: return []` in place of the assert
knn_entry_lenient(kk, len) ==
    IF kk <= 0 THEN "empty"
    ELSE IF kk >= len THEN "all"
    ELSE "search"

\* MTree.knn: which of its four exits a call with k on a tree of length len takes
knn_entry(kk, len) ==
    IF ~(kk >= 0) THEN "assert"
    ELSE IF kk = 0 THEN "empty"
    ELSE IF kk >= len THEN "all"
    ELSE "search"

\* [node.router for node in results]
knn_result(N, ls) == [i \in 1..Len(ls_iter(ls)) |-> N[ls_iter(ls)[i].item].router]

\* ------------------------------------------------------- reading the tree
\* the nodes of the subtree of n
RECURSIVE subtree(_, _)
subtree(N, n) ==
    {n} \cup UNION {subtree(N, N[n].children[i]) : i \in 1..Len(N[n].children)}

\* the nodes reachable from the root, and the routers among them
tree_nodes == IF root = None THEN {} ELSE subtree(nodes, root)

routers == {n \in tree_nodes : isParentNode(nodes, n)}

RECURSIVE height(_, _)
height(N, n) ==
    IF isValueNode(N, n) THEN 0
    ELSE 1 + MaxOfSeq([i \in 1..Len(N[n].children) |-> height(N, N[n].children[i])])

tree_height == IF root = None THEN 0 ELSE height(nodes, root)

\* ---------------------------------------------------------------- actions
NoResults == [pq |-> <<>>, count |-> 0, k |-> 0, items |-> {}]

NoQueue == [items |-> <<>>, count |-> 0]

NoEntry == [root |-> None, height |-> 0]

NoPop == [n |-> 0, priority |-> 0, item |-> None]

NoCall == [op |-> "", priority |-> 0, item |-> None, items |-> {},
           limit |-> [inf |-> TRUE, v |-> 0], again |-> FALSE]

Init ==
    /\ pc = "new"
    /\ node_capacity = DEFAULT_NODE_CAPACITY
    /\ length = 0
    /\ root = None
    /\ nodes = <<>>
    /\ value = None
    /\ node = None
    /\ child = None
    /\ k = 0
    /\ results = NoResults
    /\ pq = NoQueue
    /\ ret = <<>>
    /\ error = ""
    /\ inserted = <<>>
    /\ popped = <<>>
    /\ entered = NoEntry
    /\ held = {}
    /\ taken = NoPop
    /\ priority_of = <<>>
    /\ call = NoCall

\* MTree.__init__ with values=() (callers insert afterwards, which is what
\* __init__ itself does with its values)
Construct(c) ==
    /\ pc = "new"
    /\ node_capacity' = c
    /\ length' = 0
    /\ root' = None
    /\ pc' = "idle"
    /\ UNCHANGED <<nodes, value, node, child, k, results, pq, ret, error, inserted,
                   popped, entered, hvars>>

\* MTree.insert, up to the call of self.root.insert
Insert(v) ==
    /\ pc = "idle"
    /\ Len(inserted) < MaxInserts
    /\ length' = length + 1
    /\ inserted' = Append(inserted, v)
    /\ entered' = [root |-> root, height |-> tree_height]
    /\ IF root = None
       THEN /\ nodes' = NewParentNode(Append(nodes, ValueNode(v)), <<Len(nodes) + 1>>)
            /\ root' = Len(nodes) + 2
            /\ UNCHANGED <<pc, value, node>>
       ELSE /\ pc' = "insert"
            /\ node' = root
            /\ value' = v
            /\ UNCHANGED <<nodes, root>>
    /\ UNCHANGED <<node_capacity, child, k, results, pq, ret, error, popped, hvars>>

\* ParentNode.insert without the test of the kind of its children: the value
\* is added where the insert stands
NodeInsert_no_descent ==
    /\ pc = "insert"
    /\ nodes' = Append(nodes, ValueNode(value))
    /\ child' = Len(nodes) + 1
    /\ pc' = "add_child"
    /\ UNCHANGED <<node_capacity, length, root, value, node, k, results, pq, ret,
                   error, inserted, popped, entered, hvars>>

\* ParentNode.insert on `node`
NodeInsert ==
    /\ pc = "insert"
    /\ IF isValueNode(nodes, nodes[node].children[1])
       THEN /\ nodes' = Append(nodes, ValueNode(value))
            /\ child' = Len(nodes) + 1
            /\ pc' = "add_child"
            /\ UNCHANGED node
       ELSE /\ nodes' = grow_radius(nodes, node, value)
            /\ node' = nearest_child(nodes, node, value)
            /\ UNCHANGED <<pc, child>>
    /\ UNCHANGED <<node_capacity, length, root, value, k, results, pq, ret, error,
                   inserted, popped, entered, hvars>>

\* add_child with `self.radius = self.distance(child)` in _add_child
AddChild_radius_overwritten ==
    /\ pc = "add_child"
    /\ IF at_capacity(nodes, node, node_capacity)
       THEN LET N2 == split_nodes(nodes, node, child)
                new_node == Len(N2)
            IN  IF N2[node].parent = None
                THEN /\ nodes' = NewParentNode(N2, <<node, new_node>>)
                     /\ pc' = "insert_return"
                     /\ UNCHANGED <<node, child>>
                ELSE /\ nodes' = N2
                     /\ node' = N2[node].parent
                     /\ child' = new_node
                     /\ UNCHANGED pc
       ELSE /\ nodes' = [add_child_(nodes, node, child) EXCEPT
                          ![node].radius = distance_node(nodes, node, child)]
            /\ pc' = "insert_return"
            /\ UNCHANGED <<node, child>>
    /\ UNCHANGED <<node_capacity, length, root, value, k, results, pq, ret, error,
                   inserted, popped, entered, hvars>>

\* ParentNode.add_child(child) on `node`, with ParentNode.split
AddChild ==
    /\ pc = "add_child"
    /\ IF at_capacity(nodes, node, node_capacity)
       THEN LET N2 == split_nodes(nodes, node, child)
                new_node == Len(N2)
            IN  IF N2[node].parent = None
                THEN /\ nodes' = NewParentNode(N2, <<node, new_node>>)
                     /\ pc' = "insert_return"
                     /\ UNCHANGED <<node, child>>
                ELSE /\ nodes' = N2
                     /\ node' = N2[node].parent
                     /\ child' = new_node
                     /\ UNCHANGED pc
       ELSE /\ nodes' = add_child_(nodes, node, child)
            /\ pc' = "insert_return"
            /\ UNCHANGED <<node, child>>
    /\ UNCHANGED <<node_capacity, length, root, value, k, results, pq, ret, error,
                   inserted, popped, entered, hvars>>

\* MTree.insert without `self.root = self.root.parent or self.root`
InsertReturn_keep_root ==
    /\ pc = "insert_return"
    /\ pc' = "idle"
    /\ value' = None
    /\ node' = None
    /\ child' = None
    /\ UNCHANGED <<node_capacity, length, root, nodes, k, results, pq, ret, error,
                   inserted, popped, entered, hvars>>

\* MTree.insert after self.root.insert returned
InsertReturn ==
    /\ pc = "insert_return"
    /\ root' = IF nodes[root].parent # None THEN nodes[root].parent ELSE root
    /\ pc' = "idle"
    /\ value' = None
    /\ node' = None
    /\ child' = None
    /\ UNCHANGED <<node_capacity, length, nodes, k, results, pq, ret, error, inserted,
                   popped, entered, hvars>>

\* MTree.knn, up to the first test of `while pq`
Knn(v, kk) ==
    /\ pc = "idle"
    /\ value' = v
    /\ k' = kk
    /\ CASE knn_entry(kk, length) = "assert" ->
                /\ error' = "AssertionError"
                /\ pc' = "returned"
                /\ UNCHANGED <<ret, results, pq>>
         [] knn_entry(kk, length) = "empty" ->
                /\ ret' = <<>>
                /\ pc' = "returned"
                /\ UNCHANGED <<error, results, pq>>
         [] knn_entry(kk, length) = "all" ->
                /\ ret' = tree_list
                /\ pc' = "returned"
                /\ UNCHANGED <<error, results, pq>>
         [] knn_entry(kk, length) = "search" ->
                /\ results' = LimitedSet(kk)
                /\ pq' = pq_push(NoQueue, min_distance(nodes, root, v), root)
                /\ pc' = "knn"
                /\ UNCHANGED <<ret, error>>
    /\ UNCHANGED <<node_capacity, length, root, nodes, node, child, inserted,
                   popped, entered, hvars>>

\* MTree.knn: one pass of `while pq`
KnnLoop ==
    /\ pc = "knn"
    /\ pq.items # <<>>
    /\ LET st == knn_body(nodes, value, [results |-> results, pq |-> pq])
       IN  /\ results' = st.results
           /\ pq' = st.pq
    /\ popped' = Append(popped, pq_pop_item(pq).item)
    /\ UNCHANGED <<pc, node_capacity, length, root, nodes, value, node, child,
                   k, ret, error, inserted, entered, hvars>>

\* MTree.knn: the return after the loop
KnnReturn ==
    /\ pc = "knn"
    /\ pq.items = <<>>
    /\ ret' = knn_result(nodes, results)
    /\ pc' = "returned"
    /\ UNCHANGED <<node_capacity, length, root, nodes, value, node, child,
                   k, results, pq, error, inserted, popped, entered, hvars>>

\* the caller takes the result of knn (or its exception) and goes on
Resume ==
    /\ pc = "returned"
    /\ pc' = "idle"
    /\ value' = None
    /\ k' = 0
    /\ results' = NoResults
    /\ pq' = NoQueue
    /\ ret' = <<>>
    /\ error' = ""
    /\ popped' = <<>>
    /\ UNCHANGED <<node_capacity, length, root, nodes, node, child, inserted,
                   entered, hvars>>

KValues == -1..(MaxInserts + 1)

Next ==
    \/ \E c \in 0..MaxCapacity : Construct(c)
    \/ \E v \in Values : Insert(v)
    \/ NodeInsert
    \/ AddChild
    \/ InsertReturn
    \/ \E v \in Queries, kk \in KValues : Knn(v, kk)
    \/ KnnLoop
    \/ KnnReturn
    \/ Resume

Spec == Init /\ [][Next]_vars

\* Scenario B: the callers insert strings under the default (edit) distance
Strings == {str(<<"a">>), str(<<"b">>), str(<<"c">>), str(<<"a", "b">>)}

NextB ==
    \/ \E c \in 2..MaxCapacity : Construct(c)
    \/ \E v \in Strings : Insert(v)
    \/ NodeInsert
    \/ AddChild
    \/ InsertReturn

SpecB == Init /\ [][NextB]_vars

\* knn runs to completion on the caller's stack: a call that is in its loop
\* takes its next step.  KnnLoop is enabled exactly when pc = "knn" and the
\* queue is not empty (every primed value of it is defined and popped grows),
\* so its weak fairness is written with that guard for ENABLED.
KnnLoopFair ==
    \/ []<>(~(pc = "knn" /\ pq.items # <<>>))
    \/ []<><<KnnLoop>>_vars

FairSpec == Spec /\ KnnLoopFair /\ WF_vars(KnnReturn)

\* ------------------------------------------- PriorityQueue and its callers
\* the items and the priorities the callers of PriorityQueue push
PQItems == {1, 2, 3, 4}
PQPriorities == {0, 1, 2}

\* PriorityQueue.push of an item that is not in the queue
PqPush(priority, item) ==
    /\ Cardinality(held) + taken.n < MaxPushes
    /\ \A h \in held : h.item # item
    /\ pq' = pq_push(pq, priority, item)
    /\ held' = held \cup {[priority |-> priority, item |-> item,
                           seq |-> Cardinality(held) + taken.n]}
    /\ UNCHANGED <<pc, node_capacity, length, root, nodes, value, node, child, k,
                   results, ret, error, inserted, popped, entered, taken,
                   priority_of, call>>

\* PriorityQueue.pop, called when bool(pq)
PqPop ==
    /\ pq.items # <<>>
    /\ pq' = pq_pop_queue(pq)
    /\ taken' = [n |-> taken.n + 1, priority |-> pq_pop_item(pq).priority,
                 item |-> pq_pop_item(pq).item]
    /\ held' = {h \in held : h.item # pq_pop_item(pq).item}
    /\ UNCHANGED <<pc, node_capacity, length, root, nodes, value, node, child, k,
                   results, ret, error, inserted, popped, entered,
                   priority_of, call>>

NextPQ ==
    \/ \E priority \in PQPriorities, item \in PQItems : PqPush(priority, item)
    \/ PqPop

SpecPQ == Init /\ [][NextPQ]_vars

\* ---------------------------------------------- LimitedSet and its callers
\* the items and the priorities the callers of LimitedSet add
LSItems == {1, 2, 3}
LSPriorities == {0, 1, 2}

\* LimitedSet(kk)
LsNew(kk) ==
    /\ call.op = ""
    /\ results' = LimitedSet(kk)
    /\ call' = [call EXCEPT !.op = "new"]
    /\ UNCHANGED <<pc, node_capacity, length, root, nodes, value, node, child, k,
                   pq, ret, error, inserted, popped, entered, held, taken,
                   priority_of>>

\* LimitedSet.add of an item that is not in items
LsAdd(priority, item) ==
    /\ call.op # ""
    /\ error = ""
    /\ results.count < MaxAdds
    /\ item \notin results.items
    /\ results' = ls_add(results, priority, item)
    /\ error' = IF ls_add_raises(results, priority, item) THEN "KeyError" ELSE ""
    /\ priority_of' = [i \in DOMAIN priority_of \cup {item} |->
                          IF i = item THEN priority ELSE priority_of[i]]
    /\ call' = [op |-> "add", priority |-> priority, item |-> item,
                items |-> results.items, limit |-> limit(results),
                again |-> call.again \/ item \in DOMAIN priority_of]
    /\ UNCHANGED <<pc, node_capacity, length, root, nodes, value, node, child, k,
                   pq, ret, inserted, popped, entered, held, taken>>

\* LimitedSet.discard of one of its items
LsDiscard(item) ==
    /\ call.op # ""
    /\ error = ""
    /\ item \in results.items
    /\ results' = ls_discard(results, item)
    /\ call' = [op |-> "discard", priority |-> 0, item |-> item,
                items |-> results.items, limit |-> limit(results),
                again |-> call.again]
    /\ UNCHANGED <<pc, node_capacity, length, root, nodes, value, node, child, k,
                   pq, ret, error, inserted, popped, entered, held, taken,
                   priority_of>>

NextLS ==
    \/ \E kk \in 1..MaxK : LsNew(kk)
    \/ \E priority \in LSPriorities, item \in LSItems : LsAdd(priority, item)
    \/ \E item \in LSItems : LsDiscard(item)

SpecLS == Init /\ [][NextLS]_vars

\* LimitedSet under callers that add every item at most once
LSDistinct == {1, 2, 3, 4}

LsAddNew(priority, item) ==
    /\ item \notin DOMAIN priority_of
    /\ LsAdd(priority, item)

NextLSD ==
    \/ \E kk \in 1..MaxK : LsNew(kk)
    \/ \E priority \in LSPriorities, item \in LSDistinct : LsAddNew(priority, item)
    \/ \E item \in LSDistinct : LsDiscard(item)

SpecLSD == Init /\ [][NextLSD]_vars

\* ------------------------------------------------------------ properties
Range(s) == {s[i] : i \in 1..Len(s)}

\* how many times x occurs in the sequence s
Count(s, x) == Cardinality({i \in 1..Len(s) : s[i] = x})

SameBag(s, t) == \A x \in Range(s) \cup Range(t) : Count(s, x) = Count(t, x)

Min(x, y) == IF x <= y THEN x ELSE y

\* the largest distance to q among the sequence of values s
Furthest(q, s) == MaxOfSeq([i \in 1..Len(s) |-> distance_function(q, s[i])])

\* the distance to q of the n-th nearest of the inserted values (brute force)
NthNearest(q, n) ==
    CHOOSE d \in {distance_function(q, inserted[i]) : i \in 1..Len(inserted)} :
        /\ Cardinality({i \in 1..Len(inserted) : distance_function(q, inserted[i]) < d}) < n
        /\ Cardinality({i \in 1..Len(inserted) : distance_function(q, inserted[i]) <= d}) >= n

\* ------------------------------------------------------------------ claims

\* C1: on a tree of capacity >= 2 holding at least one value, knn(q, k) with
\* k >= 1 returns min(k, len) values, and the largest distance to q among
\* them is the distance of the min(k, len)-th nearest stored value.
C1_KnnCorrect ==
    (pc = "returned" /\ error = "" /\ k >= 1 /\ length >= 1 /\ node_capacity >= 2)
        => /\ Len(ret) = Min(k, length)
           /\ Furthest(value, ret) = NthNearest(value, Min(k, length))

\* C1 witness: a search (k < len) has returned on a tree of height 3 or more
C1_Witness ==
    /\ pc = "returned"
    /\ node_capacity >= 2
    /\ k >= 1
    /\ k < length
    /\ tree_height >= 3
    /\ Len(ret) = k

\* C2: after every completed insert into a tree of capacity >= 2, every
\* router covers every value beneath it: distance(R.router, v) <= R.radius.
C2_Covering ==
    (pc = "idle" /\ node_capacity >= 2)
        => \A R \in routers : \A v \in Range(iter(nodes, R)) :
               distance_function(nodes[R].router, v) <= nodes[R].radius

\* C2 witness: a router that is not the root covers a value other than its own
C2_Witness ==
    /\ pc = "idle"
    /\ node_capacity >= 2
    /\ \E R \in routers :
          /\ R # root
          /\ isParentNode(nodes, nodes[R].children[1])
          /\ nodes[R].radius > 0

\* C3: after the inserts of S, len(tree) is the number of inserts, iterating
\* the tree yields the set of values of S, and every value of S is contained.
C3_RoundTrip ==
    (pc = "idle" /\ node_capacity >= 2)
        => /\ tree_len = Len(inserted)
           /\ Range(tree_list) = Range(inserted)
           /\ \A v \in Range(inserted) : tree_contains(v)

\* C3 witness: several distinct values went through at least one split
C3_Witness ==
    /\ pc = "idle"
    /\ node_capacity >= 2
    /\ Cardinality(Range(inserted)) >= 3
    /\ tree_height >= 2

\* C4: in a tree of capacity c >= 2 every router has at most c children.
C4_Capacity ==
    (pc = "idle" /\ node_capacity >= 2)
        => \A R \in routers : Len(nodes[R].children) <= node_capacity

\* C4 witness: a split has happened and some router is full
C4_Witness ==
    /\ pc = "idle"
    /\ node_capacity >= 2
    /\ tree_height >= 2
    /\ \E R \in routers : Len(nodes[R].children) = node_capacity

\* C5: the root has no parent; every other node is in the child list of its
\* parent, which is a router; every child of a router has that router as its
\* parent and sits in no other place of any child list; the parents are
\* exactly the routers.
C5_Parents ==
    (pc = "idle" /\ root # None)
        => /\ nodes[root].parent = None
           /\ \A n \in tree_nodes \ {root} :
                 /\ nodes[n].parent \in routers
                 /\ n \in Range(nodes[nodes[n].parent].children)
           /\ \A p \in routers : \A i \in 1..Len(nodes[p].children) :
                 /\ nodes[nodes[p].children[i]].parent = p
                 /\ \A q \in routers : \A j \in 1..Len(nodes[q].children) :
                       nodes[q].children[j] = nodes[p].children[i] => (q = p /\ j = i)
           /\ {nodes[n].parent : n \in {m \in tree_nodes : nodes[m].parent # None}} = routers

\* C5 witness: the root was replaced and a split node's children moved to a sibling
C5_Witness ==
    /\ pc = "idle"
    /\ tree_height >= 3
    /\ Cardinality(routers) >= 4

\* C6: every insert is stored: len(tree) is the number of inserts, there is
\* one leaf per insert, and iterating yields every value as many times as it
\* was inserted; no insert raises.
C6_Multiset ==
    /\ pc \in {"insert", "add_child", "insert_return"} => error = ""
    /\ pc = "idle" =>
          /\ error = ""
          /\ tree_len = Len(inserted)
          /\ Len(tree_list) = Len(inserted)
          /\ Cardinality({n \in tree_nodes : isValueNode(nodes, n)}) = Len(inserted)
          /\ SameBag(tree_list, inserted)

\* C6 witness: a value inserted twice sits in the tree twice, after a split
C6_Witness ==
    /\ pc = "idle"
    /\ tree_height >= 2
    /\ \E v \in Values : Count(inserted, v) >= 2 /\ Count(tree_list, v) >= 2

\* the tree of Scenario A
ScenarioA == node_capacity = 2 /\ inserted = <<0, 10, 20, 30>>

\* C7: Scenario A: capacity 2, inserts 0, 10, 20, 30: knn(11, 1) returns [10]
\* and knn(11, 2) returns the values {10, 20}.
C7_ScenarioA ==
    (pc = "returned" /\ ScenarioA /\ value = 11)
        => /\ k = 1 => ret = <<10>>
           /\ k = 2 => (Range(ret) = {10, 20} /\ Len(ret) = 2)

\* C7 witness: knn(11, 2) has returned on the tree of Scenario A
C7_Witness == pc = "returned" /\ ScenarioA /\ value = 11 /\ k = 2 /\ error = ""

\* C8: a tree is never constructed with node_capacity < 2: the construction
\* raises a configuration error instead.
C8_ConfigError ==
    pc # "new" => (node_capacity >= 2 \/ error = "ConfigurationError")

\* C9: knn with k < 0 raises and knn with k = 0 returns the empty list, on
\* every tree; a call of knn with k < 0 leaves the tree as it was.
C9_KnnArgument ==
    /\ [](pc = "returned" =>
            /\ k < 0 => (error = "AssertionError" /\ ret = <<>>)
            /\ k = 0 => (error = "" /\ ret = <<>>))
    /\ [][(k' < 0 \/ k < 0) => UNCHANGED <<node_capacity, length, root, nodes>>]_vars

\* C9 witness: knn(q, -1) has raised on a tree that holds values
C9_Witness == pc = "returned" /\ k < 0 /\ length >= 2 /\ error = "AssertionError"

\* C10: knn with k >= len(tree) returns every stored value, once per insert.
C10_KnnAll ==
    (pc = "returned" /\ error = "" /\ k >= length)
        => /\ Len(ret) = length
           /\ SameBag(ret, inserted)

\* C10 witness: knn with k >= len has returned on a tree that went through a
\* split and holds a value twice
C10_Witness ==
    /\ pc = "returned"
    /\ k >= length
    /\ tree_height >= 2
    /\ \E v \in Values : Count(ret, v) >= 2


\* the items the last add dropped: held before it or offered to it, not after
Dropped == (call.items \cup {call.item}) \ results.items

\* C11: a LimitedSet(k) never holds more than k items, and an item that an
\* add drops has a priority >= the priority of every item still held.
C11_BoundedTopK ==
    /\ call.op # "" => Cardinality(results.items) <= results.k
    /\ call.op = "add" =>
          \A d \in Dropped : \A i \in results.items :
              priority_of[d] >= priority_of[i]

\* the nodes on the frontier of the running knn
Frontier == {pq.items[i].item : i \in 1..Len(pq.items)}

\* C13: every knn call returns; while it runs, no router was popped twice,
\* no router is on the frontier twice or again after it was popped, every
\* push is accounted for by one pop or one frontier entry, and the pushes
\* are no more than the routers of the tree.
C13_KnnTerminates ==
    /\ [](pc = "knn" =>
            /\ Cardinality(Range(popped)) = Len(popped)
            /\ Cardinality(Frontier) = Len(pq.items)
            /\ Frontier \cap Range(popped) = {}
            /\ Frontier \cup Range(popped) \subseteq routers
            /\ pq.count = Len(popped) + Len(pq.items)
            /\ pq.count <= Cardinality(routers))
    /\ (pc = "knn" ~> pc = "returned")

\* C13 witness: a search on a tree of equal values returned after popping
\* several routers
C13_Witness ==
    /\ pc = "returned"
    /\ node_capacity >= 2
    /\ Cardinality(Range(inserted)) = 1
    /\ Len(popped) >= 3
    /\ Len(ret) = k

\* the children of router n are all leaves
LeafBearing(n) ==
    /\ isParentNode(nodes, n)
    /\ \A i \in 1..Len(nodes[n].children) : isValueNode(nodes, nodes[n].children[i])

\* C14: Scenario B (capacity 2, edit distance).  After "a", "b" the root is
\* one router whose two children are the leaves "a" and "b" and whose radius
\* is distance("a", "b") = 1; after "a", "b", "c" a split has happened, the
\* root stands over leaf-bearing routers only, and every router covers every
\* one of the three strings beneath it.
C14_ScenarioB ==
    (pc = "idle" /\ node_capacity = 2) =>
        /\ inserted = <<str(<<"a">>), str(<<"b">>)>> =>
              /\ routers = {root}
              /\ LeafBearing(root)
              /\ iter(nodes, root) = inserted
              /\ nodes[root].radius = distance_function(str(<<"a">>), str(<<"b">>))
              /\ nodes[root].radius = 1
        /\ inserted = <<str(<<"a">>), str(<<"b">>), str(<<"c">>)>> =>
              /\ root # entered.root
              /\ tree_height = 2
              /\ Len(nodes[root].children) = 2
              /\ \A i \in 1..Len(nodes[root].children) :
                     LeafBearing(nodes[root].children[i])
              /\ SameBag(tree_list, inserted)
              /\ \A R \in routers : \A v \in Range(iter(nodes, R)) :
                     distance_function(nodes[R].router, v) <= nodes[R].radius

\* C14 witness: the three strings of the scenario are in a tree of capacity 2
C14_Witness ==
    /\ pc = "idle"
    /\ node_capacity = 2
    /\ inserted = <<str(<<"a">>), str(<<"b">>), str(<<"c">>)>>
    /\ Cardinality(routers) = 3

\* the children of router n that are nearest to v, and those whose radius
\* would have to grow the least to cover v
Nearest(n, v) ==
    {c \in Range(nodes[n].children) :
        \A d \in Range(nodes[n].children) : distance(nodes, c, v) <= distance(nodes, d, v)}

LeastIncrease(n, v) ==
    {c \in Range(nodes[n].children) :
        \A d \in Range(nodes[n].children) :
            increase_required(nodes, c, v) <= increase_required(nodes, d, v)}

\* C16: an insert that stands at a router whose children are routers goes
\* down into a child nearest to the value when that child covers the value,
\* and otherwise into a child whose radius has to grow the least (whichever
\* way ties among the nearest or among the least increases are broken).
C16_ChildSelection ==
    [][(pc = "insert" /\ isParentNode(nodes, nodes[node].children[1])) =>
          \E c \in Nearest(node, value) :
              IF covers(nodes, c, value) THEN node' = c
              ELSE node' \in LeastIncrease(node, value)]_vars

\* the largest distance from the router of R to a value beneath R
TrueRadius(R) == Furthest(nodes[R].router, iter(nodes, R))

Splits == pc = "add_child" /\ at_capacity(nodes, node, node_capacity)

\* what a step of add_child or of the return of insert does to the root
SplitStep ==
    /\ (Splits /\ nodes[node].parent = None) =>
          LET new_root == Len(nodes')
              new_node == Len(nodes') - 1
          IN  /\ node = root
              /\ new_node > Len(nodes)
              /\ isParentNode(nodes', new_root)
              /\ nodes'[new_root].children = <<node, new_node>>
              /\ nodes'[new_root].parent = None
              /\ nodes'[node].parent = new_root
              /\ nodes'[new_node].parent = new_root
              /\ pc' = "insert_return"
    /\ (Splits /\ nodes[node].parent # None) =>
          /\ pc' = "add_child"
          /\ node' = nodes[node].parent
          /\ child' = Len(nodes')
          /\ child' > Len(nodes)
          /\ isParentNode(nodes', child')
          /\ nodes'[child'].parent = None
    /\ (pc = "add_child") =>
          ((nodes'[root].parent # None) <=> (Splits /\ node = root))
    /\ (pc = "insert_return") =>
          /\ (root' # root) <=> (nodes[root].parent # None)
          /\ (root' # root) => (root' = nodes[root].parent /\ root' = Len(nodes))

\* C18: a split of a router without parent creates a new router over exactly
\* the split node and its new sibling, which is the root once the insert
\* returns, one level higher; a split of a router with a parent hands the
\* new sibling to the parent's add_child.  The root is replaced during an
\* insert exactly when the root itself splits, and an insert raises the
\* height by one when the root is replaced and not at all otherwise.
C18_SplitGrowth ==
    /\ []((pc = "idle" /\ entered.root # None) =>
            tree_height = entered.height + (IF root # entered.root THEN 1 ELSE 0))
    /\ []((pc \in {"insert", "add_child"}) => nodes[root].parent = None)
    /\ [][SplitStep]_vars

\* C18 witness: an insert whose split went up through a parent that
\* overflowed in turn has replaced the root
C18_Witness ==
    /\ pc = "idle"
    /\ node_capacity >= 2
    /\ entered.root # None
    /\ root # entered.root
    /\ tree_height = 3
    /\ entered.height = 2

\* what a split step of add_child does with the children of `node` and the
\* incoming `child`
PartitionStep ==
    (Splits /\ node_capacity >= 2) =>
        LET cands == Append(nodes[node].children, child)
            a == cands[1]
            b == cands[2]
            new_node == IF nodes[node].parent = None THEN Len(nodes') - 1
                        ELSE Len(nodes')
            a_list == nodes'[node].children
            b_list == nodes'[new_node].children
            d(x, y) == distance_function(nodes[x].router, nodes[y].router)
        IN  /\ Len(cands) = node_capacity + 1
            /\ Range(a_list) \cup Range(b_list) = Range(cands)
            /\ Range(a_list) \cap Range(b_list) = {}
            /\ Len(a_list) + Len(b_list) = Len(cands)
            /\ a_list[1] = a
            /\ b_list[1] = b
            /\ \A i \in 3..Len(cands) :
                   /\ d(a, cands[i]) < d(b, cands[i]) => cands[i] \in Range(a_list)
                   /\ d(b, cands[i]) < d(a, cands[i]) => cands[i] \in Range(b_list)
            /\ nodes'[node].router = nodes[a].router
            /\ nodes'[new_node].router = nodes[b].router
            /\ \A c \in Range(a_list) : nodes'[c].parent = node
            /\ \A c \in Range(b_list) : nodes'[c].parent = new_node

\* C19: a split (capacity >= 2) partitions the capacity + 1 candidates, the
\* children of the router followed by the incoming child: the first two, a
\* and b, head the two lists, every candidate is in exactly one list, a
\* candidate whose router is closer to a is in a's list and one closer to b
\* in b's; the split node then holds a's list under router a and the new
\* sibling b's list under router b.
C19_Partition == [][PartitionStep]_vars

\* C19 witness: the root of a tree of capacity 3 has split; it kept a and a
\* candidate nearer to a, and its sibling holds b and one other candidate
C19_Witness ==
    /\ pc = "insert_return"
    /\ node_capacity = 3
    /\ nodes[node].parent = Len(nodes)
    /\ Len(nodes[node].children) = 2
    /\ Len(nodes[Len(nodes) - 1].children) = 2
    /\ nodes[nodes[node].children[2]].router # nodes[node].router

\* what a step of add_child does to the store
AddChildStep ==
    pc = "add_child" =>
        /\ Len(nodes[node].children) < node_capacity =>
              /\ nodes' = [nodes EXCEPT
                    ![node].children = Append(@, child),
                    ![node].radius =
                        max(@, distance_function(nodes[node].router, nodes[child].router)
                                 + nodes[child].radius),
                    ![child].parent = node]
              /\ pc' = "insert_return"
              /\ UNCHANGED <<root, length, node_capacity, node, child>>
        /\ Len(nodes[node].children) = node_capacity =>
              /\ Len(nodes') > Len(nodes)
              /\ isParentNode(nodes', Len(nodes) + 1)
              /\ nodes'[node].children # Append(nodes[node].children, child)
              /\ Len(nodes'[node].children) <= Len(nodes[node].children)
        /\ Len(nodes') > Len(nodes) => Len(nodes[node].children) >= node_capacity

\* C20: add_child on a router with fewer than capacity children appends the
\* child, sets its parent and raises the radius to
\* max(radius, distance(router, child.router) + child.radius), and changes
\* nothing else; on a router with exactly capacity children it splits (a new
\* router is created and the child is not appended); no router is created by
\* add_child while the router has fewer than capacity children.
C20_AddChild == [][AddChildStep]_vars

\* C20 witness: a child was appended under capacity to a router whose radius
\* was already larger than the child's distance
C20_Witness ==
    /\ pc = "insert_return"
    /\ isParentNode(nodes, node)
    /\ Len(nodes[node].children) = 3
    /\ nodes[node].children[3] = child
    /\ nodes[node].radius > distance_function(nodes[node].router, nodes[child].router)
                                + nodes[child].radius

\* the items held before the last add, and the one it offered
Offered == call.items \cup {call.item}

\* C15: add of an item not held: with fewer than k items held the item joins
\* them and none leaves; with k items held the call changes nothing when
\* priority > limit(), and otherwise the item is inserted and exactly one
\* item, of the largest priority, is evicted.
C15_Add ==
    call.op = "add" =>
        IF Cardinality(call.items) < results.k
        THEN results.items = Offered
        ELSE IF gt_limit(call.priority, call.limit)
        THEN results.items = call.items
        ELSE \E d \in Offered :
                /\ results.items = Offered \ {d}
                /\ \A x \in Offered : priority_of[d] >= priority_of[x]

\* C12: pop returns an entry of the least priority held, and among the held
\* entries of that priority the one pushed first.
C12_PopOrder ==
    [][taken'.n > taken.n =>
          LET e == taken'
          IN  \E h \in held :
                 /\ h.item = e.item
                 /\ h.priority = e.priority
                 /\ held' = held \ {h}
                 /\ \A g \in held :
                        \/ h.priority < g.priority
                        \/ h.priority = g.priority /\ h.seq <= g.seq]_vars

\* C12 witness: pop returned the earlier of two entries of the same priority
\* while an entry of a larger priority, pushed before both, is still held
C12_Witness ==
    /\ taken.n > 0
    /\ \E g \in held : g.priority = taken.priority
    /\ \E g \in held : g.priority > taken.priority /\ g.seq = 0

\* C21: after every completed insert (capacity >= 2), for every router R,
\* every value v beneath R and every query q, min_distance(q) is
\* max(0, distance(R.router, q) - R.radius) and is at most distance(q, v),
\* which is at most max_distance(q) = distance(R.router, q) + R.radius.
C21_SoundBounds ==
    (pc = "idle" /\ node_capacity >= 2) =>
        \A R \in routers : \A q \in Queries \cup Values :
            /\ min_distance(nodes, R, q)
                  = max(0, distance_function(nodes[R].router, q) - nodes[R].radius)
            /\ max_distance(nodes, R, q)
                  = distance_function(nodes[R].router, q) + nodes[R].radius
            /\ \A v \in Range(iter(nodes, R)) :
                  /\ min_distance(nodes, R, q) <= distance_function(q, v)
                  /\ distance_function(q, v) <= max_distance(nodes, R, q)

\* C21 witness: a query lies outside the ball of a router below the root that
\* holds two different values, so both bounds are positive
C21_Witness ==
    /\ pc = "idle"
    /\ node_capacity >= 2
    /\ \E R \in routers : \E q \in Queries :
          /\ R # root
          /\ nodes[R].radius > 0
          /\ min_distance(nodes, R, q) > 0
          /\ Cardinality(Range(iter(nodes, R))) >= 2

\* the children of router n of the store N are all leaves or all routers,
\* and there is at least one
Homogeneous(N, n) ==
    /\ Len(N[n].children) >= 1
    /\ \/ \A i \in 1..Len(N[n].children) : isValueNode(N, N[n].children[i])
       \/ \A i \in 1..Len(N[n].children) : isParentNode(N, N[n].children[i])

\* what a split step does to the kinds of children
HomogeneousSplit ==
    Splits =>
        LET new_node == IF nodes[node].parent = None THEN Len(nodes') - 1
                        ELSE Len(nodes')
        IN  /\ Homogeneous(nodes', node)
            /\ Homogeneous(nodes', new_node)
            /\ nodes'[nodes'[new_node].children[1]].kind
                  = nodes'[nodes'[node].children[1]].kind
            /\ nodes'[nodes'[node].children[1]].kind
                  = nodes[nodes[node].children[1]].kind
            /\ nodes[node].parent = None =>
                  \A i \in 1..Len(nodes'[Len(nodes')].children) :
                      isParentNode(nodes', nodes'[Len(nodes')].children[i])

\* C22: at every state of a tree, also in the middle of an insert, every
\* router has at least one child and its children are all leaves or all
\* routers; a split leaves the split node and gives the new sibling children
\* of the kind the split node had, and a new root holds routers only.
C22_Homogeneous ==
    /\ [](\A R \in routers : Homogeneous(nodes, R))
    /\ [][HomogeneousSplit]_vars

\* C22 witness: a tree of three levels of routers after the split of a router
\* over routers
C22_Witness ==
    /\ pc = "idle"
    /\ node_capacity >= 2
    /\ tree_height >= 3
    /\ \E R \in routers \ {root} : isParentNode(nodes, nodes[R].children[1])

\* the largest priority among the live items (of a non-empty set)
WorstLive ==
    CHOOSE p \in {priority_of[i] : i \in results.items} :
        \A i \in results.items : priority_of[i] <= p

\* the heap holds the entry of a discarded item
Tombstone == \E i \in 1..Len(results.pq) : results.pq[i].item \notin results.items

\* C23: when no item is added a second time, after every add and discard
\* limit() is +infinity when fewer than k items are live and the
\* largest priority of a live item otherwise; no add raises, and an add that
\* overflows removes a live item (k items stay live).
C23_Limit ==
    call.op # "" =>
        /\ error = ""
        /\ ~call.again
        /\ limit(results) =
              IF Cardinality(results.items) < results.k
              THEN [inf |-> TRUE, v |-> 0]
              ELSE [inf |-> FALSE, v |-> WorstLive]
        /\ (call.op = "add" /\ Cardinality(call.items) = results.k
              /\ ~gt_limit(call.priority, call.limit)) =>
                 /\ Cardinality(results.items) = results.k
                 /\ results.items \subseteq Offered

\* C23 witness: an add has evicted the live top of the heap and bared the
\* entry of a discarded item, whose priority is worse than that of the k
\* items that are live
C23_Witness ==
    /\ call.op = "add"
    /\ Cardinality(call.items) = results.k
    /\ call.item \in results.items
    /\ results.pq[1].item \notin results.items
    /\ -(results.pq[1].priority) > WorstLive

\* the routers above node n
RECURSIVE Ancestors(_)
Ancestors(n) ==
    IF nodes[n].parent = None THEN {}
    ELSE {nodes[n].parent} \cup Ancestors(nodes[n].parent)

\* the routers the running insert has gone through and that have not split
Passed ==
    Ancestors(node) \cup (IF pc = "add_child" /\ isParentNode(nodes, child)
                          THEN {node} ELSE {})

\* C24: at every state of an insert into a tree of capacity >= 2, the states
\* between the split of a node and the attachment of its new sibling
\* included, every router reachable from the root covers every value beneath
\* it, and every router the insert has gone down through has a radius of at
\* least its distance to the value; the step of the descent at a router
\* raises its radius to that.
C24_EagerRadius ==
    /\ []((node_capacity >= 2 /\ pc \in {"insert", "add_child", "insert_return"}) =>
            \A R \in routers : \A v \in Range(iter(nodes, R)) :
                distance_function(nodes[R].router, v) <= nodes[R].radius)
    /\ []((node_capacity >= 2 /\ pc \in {"insert", "add_child"}) =>
            \A A \in Passed :
                nodes[A].radius >= distance_function(nodes[A].router, value))
    /\ [][(pc = "insert" /\ isParentNode(nodes, nodes[node].children[1])) =>
            /\ nodes'[node].radius >= distance_function(nodes[node].router, value)
            /\ nodes'[node].radius >= nodes[node].radius]_vars

\* C24 witness: a leaf-bearing router has split and its new sibling, which
\* holds the value, waits to be attached to a parent whose radius the descent
\* has raised
C24_Witness ==
    /\ pc = "add_child"
    /\ node_capacity >= 2
    /\ isParentNode(nodes, child)
    /\ child \notin tree_nodes
    /\ value \in Range(iter(nodes, child))
    /\ entered.root = root
    /\ nodes[node].radius > 0
    /\ \E v \in Range(iter(nodes, node)) :
          distance_function(nodes[node].router, v)
              < distance_function(nodes[node].router, value)

\* no node of the set S is beneath another
Disjoint(S) ==
    \A x \in S : \A y \in S : x # y => subtree(nodes, x) \cap subtree(nodes, y) = {}

\* the collector ls holds nodes of disjoint subtrees and its limit is not
\* below the distance of the k-th nearest stored value
SoundCollector(ls) ==
    /\ Disjoint(ls.items)
    /\ leq_limit(NthNearest(value, k), limit(ls))

\* router R has one of the k nearest values beneath it
HoldsNearest(R) ==
    \E v \in Range(iter(nodes, R)) :
        distance_function(value, v) <= NthNearest(value, k)

\* the routers whose parent was expanded without pushing them
Pruned ==
    {R \in routers \ {root} :
        /\ nodes[R].parent \in Range(popped)
        /\ R \notin Range(popped) \cup Frontier}

\* the collector after the first i children of the popped node were offered
AfterChildren(i) ==
    LET n == pq_pop_item(pq).item
    IN  knn_children(nodes, n, value, SubSeq(nodes[n].children, 1, i),
                     [results |-> ls_discard(results, n), pq |-> pq_pop_queue(pq)]).results

\* C25: while knn searches a tree of capacity >= 2 (k < len), before and
\* after every pass of the loop and after every child offered within a pass,
\* the live items of the collector are nodes of pairwise disjoint subtrees
\* and limit() is at least the distance of the k-th nearest stored value;
\* no router with one of the k nearest values beneath it is left unpushed
\* when its parent is expanded.
C25_NoFalsePrune ==
    /\ []((pc = "knn" /\ node_capacity >= 2) =>
            /\ SoundCollector(results)
            /\ \A R \in Pruned : ~HoldsNearest(R))
    /\ [][(pc = "knn" /\ node_capacity >= 2 /\ pq.items # <<>>) =>
            \A i \in 0..Len(nodes[pq_pop_item(pq).item].children) :
                SoundCollector(AfterChildren(i))]_vars

\* C25 witness: the collector is full, with a router among its live items,
\* and a router has been pruned
C25_Witness ==
    /\ pc = "knn"
    /\ node_capacity >= 2
    /\ Cardinality(results.items) = k
    /\ \E R \in results.items : isParentNode(nodes, R)
    /\ Pruned # {}

\* C26: when a search (1 <= k < len) returns, the collector's live items are
\* leaves of the tree, never routers; its iteration yields each of them once
\* and nothing else; the returned list has one value per live leaf and holds
\* no value more often than it was inserted.
C26_LeavesOnly ==
    (pc = "returned" /\ error = "" /\ k >= 1 /\ k < length) =>
        /\ \A n \in results.items : isValueNode(nodes, n) /\ n \in tree_nodes
        /\ {ls_iter(results)[i].item : i \in 1..Len(ls_iter(results))} = results.items
        /\ Len(ls_iter(results)) = Cardinality(results.items)
        /\ Len(ret) = Cardinality(results.items)
        /\ \A i \in 1..Len(ret) : ret[i] = nodes[ls_iter(results)[i].item].router
        /\ \A x \in Range(ret) : Count(ret, x) <= Count(inserted, x)

\* C26 witness: a search returned the value that is also the representative
\* of a router it had collected and expanded; the router's heap entry is
\* still in the collector's heap
C26_Witness ==
    /\ pc = "returned"
    /\ node_capacity >= 2
    /\ k >= 1
    /\ k < length
    /\ Len(ret) = k
    /\ \E i \in 1..Len(results.pq) :
          /\ isParentNode(nodes, results.pq[i].item)
          /\ nodes[results.pq[i].item].router \in Range(ret)

\* the leaves of the tree
Leaves == {n \in tree_nodes : isValueNode(nodes, n)}

\* the number of routers above node n
Depth(n) == Cardinality(Ancestors(n))

\* C27: after every completed insert all leaves are at the same depth below
\* the root, and the router value of every router is the router value of its
\* first child and a value stored beneath it; the router value of a router
\* never changes once the router exists.
C27_Balanced ==
    /\ [](pc = "idle" =>
            /\ \A x \in Leaves : \A y \in Leaves : Depth(x) = Depth(y)
            /\ \A x \in Leaves : Depth(x) = tree_height
            /\ \A R \in routers :
                  /\ nodes[R].router = nodes[nodes[R].children[1]].router
                  /\ nodes[R].router \in Range(iter(nodes, R)))
    /\ [][\A n \in DOMAIN nodes :
            /\ n \in DOMAIN nodes'
            /\ nodes'[n].kind = nodes[n].kind
            /\ nodes'[n].router = nodes[n].router]_vars

\* C27 witness: a tree of three levels of routers whose routers do not all
\* carry the same value
C27_Witness ==
    /\ pc = "idle"
    /\ node_capacity >= 2
    /\ tree_height >= 3
    /\ Cardinality(Leaves) >= 4
    /\ \E R \in routers : nodes[R].router # nodes[root].router

====
